---------------------------- MODULE Spec2Model ----------------------------
(***************************************************************************)
(* Keyset pagination of the list endpoints of videosRouter and             *)
(* playlistsRouter.  The store is the set of tables the procedures read;   *)
(* a client holds one query (endpoint, caller, filter fields, limit) and   *)
(* chains page fetches, passing each returned nextCursor back.             *)
(*                                                                         *)
(* Identifiers (cuid2 strings) are modelled by integers whose order stands *)
(* for the store's string order; timestamps are integers (instants, at the *)
(* resolution a cursor carries).  A nullish input is a set with at most    *)
(* one element: {} is null.  The joins with users are total (every userId  *)
(* names a user) and the aggregates likeCount / dislikeCount, which no     *)
(* where or order clause reads, are left out of the rows.                  *)
(*                                                                         *)
(* Spec           page-fetch chains of the eight list endpoints            *)
(* SpecPlaylists  calls of addVideo, removeVideo, getOne, remove and of    *)
(*                the first page of getVideos                              *)
(* SpecWrites     one enumeration with writes between its page fetches     *)
(* SpecVideos     videos.remove with provider calls that may throw         *)
(* SpecStudio     videos.update, remove, revalidate and restoreThumbnail   *)
(* SpecConcurrent addVideo / removeVideo of two sessions, interleaved      *)
(* SpecProvider   renders of TRPCProvider on the server and in two tabs    *)
(***************************************************************************)
EXTENDS Integers, Sequences, FiniteSets

\* ------------------------------------------------------------------ bounds
\* Number of record identifiers per table.
MaxId == 3
\* Number of distinct instants a timestamp column can hold.
MaxTime == 2

\* Program constants: z.number().min(1).max(100).
MinLimit == 1
MaxLimit == 100

VideoIds == 1..MaxId
PlaylistIds == 1..MaxId
Times == 1..MaxTime
Users == {"u1", "u2"}
Categories == {"c1", "c2"}

Null == {}
Some(x) == {x}
Get(o) == CHOOSE x \in o : TRUE

\* A JavaScript number n + 0.5 * [half]: limits are numbers, not integers.
Num(n) == [n |-> n, half |-> FALSE]
NumHalf(n) == [n |-> n, half |-> TRUE]
IsInteger(x) == ~x.half
\* x >= k and x <= k for an integer k
Geq(x, k) == x.n >= k
Leq(x, k) == x.n < k \/ (x.n = k /\ ~x.half)

VARIABLES
    videos,          \* table videos: id -> row
    videoViews,      \* table video_views: rows (userId, videoId, updatedAt)
    videoReactions,  \* table video_reactions: rows (userId, videoId, type, createdAt)
    subscriptions,   \* table subscriptions: rows (viewerId, creatorId)
    playlists,       \* table playlists: id -> row
    playlistVideos,  \* table playlist_videos: rows (playlistId, videoId)
    req,             \* the client's query: procedure, ctx user, input fields, limit
    cursor,          \* the cursor the next fetch will send
    sent,            \* the cursor the last fetch sent
    result,          \* the last response
    visited,         \* the ids of the items returned so far, in order
    calls,           \* page fetches issued in this chain
    reads,           \* store reads executed in this chain
    first,           \* the cursor the chain started from
    utFiles,         \* file-storage provider: the thumbnail keys it holds
    muxAssets,       \* media-processing provider: the asset ids it holds
    providerCalls,   \* the calls made to the providers so far
    written,         \* ids of the records inserted, deleted or modified since
                     \* the enumeration began
    inflight,        \* per client: the addVideo / removeVideo call it is in
    pairKey,         \* whether the store refuses a second playlistVideos row
                     \* for a (playlistId, videoId) pair
    browserQueryClient, \* per environment: the module variable of the provider
    created,         \* per environment: the query clients made there
    returned,        \* per environment: what getQueryClient returned, in order
    mounted          \* per environment: how far the render of TRPCProvider is

store == <<videos, videoViews, videoReactions, subscriptions, playlists, playlistVideos>>
providers == <<utFiles, muxAssets, providerCalls>>
vars == <<videos, videoViews, videoReactions, subscriptions, playlists, playlistVideos,
          req, cursor, sent, result, visited, calls, reads, first,
          utFiles, muxAssets, providerCalls, written, inflight, pairKey,
          browserQueryClient, created, returned, mounted>>
concurrent == <<inflight, pairKey>>
provider == <<browserQueryClient, created, returned, mounted>>

\* ------------------------------------------------------------ store reads
\* db.$count(videoViews, eq(videoViews.videoId, videos.id))
viewCount(id) == Cardinality({v \in videoViews : v.videoId = id})

\* Faulty variant of First: ties on the sort key are broken by ascending id.
FirstAscendingId(rows, k) ==
    CHOOSE r \in rows : \A s \in rows :
        s = r \/ r[k] > s[k] \/ (r[k] = s[k] /\ r.id < s.id)

\* ORDER BY desc(k), desc(id): the row that comes first among rows.
First(rows, k) ==
    CHOOSE r \in rows : \A s \in rows :
        s = r \/ r[k] > s[k] \/ (r[k] = s[k] /\ r.id > s.id)

\* .orderBy(desc(<k>), desc(<id>)).limit(n): the first n rows in that order.
RECURSIVE orderByLimit(_, _, _)
orderByLimit(rows, k, n) ==
    IF rows = {} \/ n <= 0 THEN <<>>
    ELSE LET r == First(rows, k)
         IN <<r>> \o orderByLimit(rows \ {r}, k, n - 1)

\* Faulty variant of cursorWhere: no tie-break on the id.
cursorWhereKeyOnly(rowKey, rowId, c, k) ==
    c = Null \/ rowKey < Get(c)[k]

\* Faulty variant of cursorWhere: lte instead of lt in the tie-break.
cursorWhereLte(rowKey, rowId, c, k) ==
    c = Null \/ rowKey < Get(c)[k] \/ (rowKey = Get(c)[k] /\ rowId <= Get(c).id)

\* Faulty variant of cursorWhere: the rows are cut at the cursor's id alone.
cursorWhereIdOnly(rowKey, rowId, c, k) == c = Null \/ rowId < Get(c).id

\* or(lt(col, cursor.k), and(eq(col, cursor.k), lt(id, cursor.id)))
cursorWhere(rowKey, rowId, c, k) ==
    c = Null \/ rowKey < Get(c)[k] \/ (rowKey = Get(c)[k] /\ rowId < Get(c).id)

\* Faulty variant of inputValid: the lower bound is missing.
inputValidNoMin(input) == Leq(input.limit, MaxLimit)

\* z.object({ ..., limit: z.number().min(1).max(100) })
inputValid(input) == Geq(input.limit, MinLimit) /\ Leq(input.limit, MaxLimit)

\* Faulty variant of sliceLast: the extra row is kept.
sliceNone(data) == data

\* data.slice(0, -1)
sliceLast(data) == SubSeq(data, 1, Len(data) - 1)

\* { id: lastItem.id, <k>: lastItem.<k> }
Cursor(id, k, v) == [f \in {"id", k} |-> IF f = "id" THEN id ELSE v]
cursorOf(lastItem, k) == Cursor(lastItem.id, k, lastItem[k])

Response(status, items, nextCursor, nreads) ==
    [status |-> status, items |-> items, nextCursor |-> nextCursor, reads |-> nreads]

\* Faulty variant of page: the cursor is read from lastItem before hasMore is
\* looked at, so an empty page throws.
pageEager(data, limit, k, nreads) ==
    LET hasMore == Len(data) > limit
        items == IF hasMore THEN sliceLast(data) ELSE data
    IN  IF items = <<>>
        THEN Response("TypeError", <<>>, Null, nreads)
        ELSE Response("ok", items,
                      IF hasMore THEN Some(cursorOf(items[Len(items)], k)) ELSE Null,
                      nreads)

\* const hasMore = data.length > limit; items; lastItem; nextCursor
\* (limit is an integer here; k is the field the cursor carries; reading a
\* field of an undefined lastItem throws a TypeError)
page(data, limit, k, nreads) ==
    LET hasMore == Len(data) > limit
        items == IF hasMore THEN sliceLast(data) ELSE data
    IN  IF hasMore /\ items = <<>>
        THEN Response("TypeError", <<>>, Null, nreads)
        ELSE Response("ok", items,
                      IF hasMore THEN Some(cursorOf(items[Len(items)], k)) ELSE Null,
                      nreads)

\* Faulty variant of listQuery: the read stops at limit rows, without the
\* extra row that tells whether more rows follow.
listQueryNoExtraRow(input, rows, ordKey, curKey, nreads) ==
    IF ~IsInteger(input.limit)
    THEN Response("STORE_ERROR", <<>>, Null, nreads + 1)
    ELSE page(orderByLimit(rows, ordKey, input.limit.n), input.limit.n, curKey,
              nreads + 1)

\* The tail every list procedure shares: input validation, the read
\* .orderBy(desc(ordKey), desc(id)).limit(limit + 1) of the rows the where
\* clause keeps, then the page.  A row cap that is not an integer is refused
\* by the store (the LIMIT parameter is a bigint) and the failure propagates.
listQuery(input, rows, ordKey, curKey, nreads) ==
    IF ~IsInteger(input.limit)
    THEN Response("STORE_ERROR", <<>>, Null, nreads + 1)
    ELSE page(orderByLimit(rows, ordKey, input.limit.n + 1), input.limit.n, curKey,
              nreads + 1)

BadRequest == Response("BAD_REQUEST", <<>>, Null, 0)

\* `x ? ... : undefined` for a nullish string x: null, undefined and "" are falsy
truthy(o) == o # Null /\ Get(o) # ""

\* ------------------------------------------------------------- videosRouter
videoRow(id) ==
    [id |-> id, userId |-> videos[id].userId, categoryId |-> videos[id].categoryId,
     visibility |-> videos[id].visibility, updatedAt |-> videos[id].updatedAt,
     viewCount |-> viewCount(id)]

\* Faulty variant of videosGetMany: the visibility predicate is missing.
videosGetManyAnyVisibility(input, c) ==
    IF ~inputValid(input) THEN BadRequest
    ELSE listQuery(input,
        {r \in {videoRow(id) : id \in DOMAIN videos} :
            /\ (truthy(input.userId) => r.userId = Get(input.userId))
            /\ (truthy(input.categoryId) => r.categoryId = Get(input.categoryId))
            /\ cursorWhere(r.updatedAt, r.id, c, "updatedAt")},
        "updatedAt", "updatedAt", 0)

videosGetMany(input, c) ==
    IF ~inputValid(input) THEN BadRequest
    ELSE listQuery(input,
        {r \in {videoRow(id) : id \in DOMAIN videos} :
            /\ r.visibility = "public"
            /\ (truthy(input.userId) => r.userId = Get(input.userId))
            /\ (truthy(input.categoryId) => r.categoryId = Get(input.categoryId))
            /\ cursorWhere(r.updatedAt, r.id, c, "updatedAt")},
        "updatedAt", "updatedAt", 0)

videosGetManyTrending(input, c) ==
    IF ~inputValid(input) THEN BadRequest
    ELSE listQuery(input,
        {r \in {videoRow(id) : id \in DOMAIN videos} :
            /\ r.visibility = "public"
            /\ cursorWhere(r.viewCount, r.id, c, "viewCount")},
        "viewCount", "viewCount", 0)

\* db.$with('viewer_subscriptions'): the creators the caller subscribes to
viewerSubscriptions(userId) == {s \in subscriptions : s.viewerId = userId}

videosGetManySubscribed(ctxUserId, input, c) ==
    IF ~inputValid(input) THEN BadRequest
    ELSE listQuery(input,
        {r \in {videoRow(id) : id \in DOMAIN videos} :
            /\ \E s \in viewerSubscriptions(ctxUserId) : s.creatorId = r.userId
            /\ r.visibility = "public"
            /\ cursorWhere(r.updatedAt, r.id, c, "updatedAt")},
        "updatedAt", "updatedAt", 0)

\* ------------------------------------------------------ videosRouter.remove
\* What videos.remove answers and leaves: the returned row, the videos
\* table, the providers' contents, the provider calls it made and the
\* failures it wrote to console.error.
Removal(status, data, vids, files, assets, made, logged) ==
    [status |-> status, data |-> data, videos |-> vids, utFiles |-> files,
     muxAssets |-> assets, made |-> made, logged |-> logged]

ProviderCall(service, op, arg, threw) ==
    [service |-> service, op |-> op, arg |-> arg, threw |-> threw]

\* .set({ thumbnailKey: null, thumbnailUrl: null })
clearThumbnail(row) == [row EXCEPT !.thumbnailKey = Null, !.thumbnailUrl = Null]

\* the row .returning() yields: the columns of the video with its id
returnedVideo(id, row) ==
    [id |-> id, userId |-> row.userId, categoryId |-> row.categoryId,
     visibility |-> row.visibility, updatedAt |-> row.updatedAt,
     thumbnailKey |-> row.thumbnailKey, thumbnailUrl |-> row.thumbnailUrl,
     muxAssetId |-> row.muxAssetId, muxPlaybackId |-> row.muxPlaybackId,
     muxUploadId |-> row.muxUploadId]

\* the row .returning() yields for the deleted video; its thumbnail columns
\* are null when the handler cleared them before the delete
removedVideo(id, cleared) ==
    returnedVideo(id, IF cleared THEN clearThumbnail(videos[id]) ELSE videos[id])

\* select().from(videos).where(and(eq(videos.id, id), eq(videos.userId, userId)))
ownVideo(id, userId) == id \in DOMAIN videos /\ videos[id].userId = userId

\* Faulty variant of videosRemove: the provider calls are not wrapped in
\* try/catch, so a provider failure aborts the removal.
videosRemoveUncaught(ctxUserId, input, utThrows, muxThrows) ==
    IF ~ownVideo(input.id, ctxUserId)
    THEN Removal("NOT_FOUND", Null, videos, utFiles, muxAssets, {}, {})
    ELSE
    LET existing == videos[input.id]
        hasThumbnail == existing.thumbnailKey # Null
        hasAsset == existing.muxAssetId # Null
        utCall == IF hasThumbnail
                  THEN {ProviderCall("UploadThing", "deleteFiles", existing.thumbnailKey, utThrows)}
                  ELSE {}
        muxCall == IF hasAsset /\ ~(hasThumbnail /\ utThrows)
                   THEN {ProviderCall("MUX", "assets.delete", existing.muxAssetId, muxThrows)}
                   ELSE {}
    IN  IF \E c \in utCall \cup muxCall : c.threw
        THEN Removal("INTERNAL_SERVER_ERROR", Null,
                     IF hasThumbnail /\ ~utThrows
                     THEN [videos EXCEPT ![input.id] = clearThumbnail(existing)] ELSE videos,
                     IF hasThumbnail /\ ~utThrows THEN utFiles \ existing.thumbnailKey ELSE utFiles,
                     muxAssets, utCall \cup muxCall, {})
        ELSE Removal("ok", Some(removedVideo(input.id, hasThumbnail)),
                     [id \in DOMAIN videos \ {input.id} |-> videos[id]],
                     utFiles \ existing.thumbnailKey, muxAssets \ existing.muxAssetId,
                     utCall \cup muxCall, {})

\* videos.remove: the lookup by (id, userId); utApi.deleteFiles and the
\* thumbnail columns set to null, in a try/catch that logs; then
\* mux.video.assets.delete in a try/catch that logs; then the delete of the
\* row, which is returned.  utThrows / muxThrows: whether the provider call,
\* if it is made, throws.
videosRemove(ctxUserId, input, utThrows, muxThrows) ==
    IF ~ownVideo(input.id, ctxUserId)
    THEN Removal("NOT_FOUND", Null, videos, utFiles, muxAssets, {}, {})
    ELSE
    LET existing == videos[input.id]
        hasThumbnail == existing.thumbnailKey # Null
        hasAsset == existing.muxAssetId # Null
        utCall == IF hasThumbnail
                  THEN {ProviderCall("UploadThing", "deleteFiles", existing.thumbnailKey, utThrows)}
                  ELSE {}
        muxCall == IF hasAsset
                   THEN {ProviderCall("MUX", "assets.delete", existing.muxAssetId, muxThrows)}
                   ELSE {}
        cleared == hasThumbnail /\ ~utThrows
    IN  Removal("ok", Some(removedVideo(input.id, cleared)),
                [id \in DOMAIN videos \ {input.id} |-> videos[id]],
                IF cleared THEN utFiles \ existing.thumbnailKey ELSE utFiles,
                IF hasAsset /\ ~muxThrows THEN muxAssets \ existing.muxAssetId ELSE muxAssets,
                utCall \cup muxCall,
                {c.service : c \in {k \in utCall \cup muxCall : k.threw}})

\* ----------------------------------- videosRouter.update, revalidate,
\* ----------------------------------- restoreThumbnail
Refuse(code, made) == Removal(code, Null, videos, utFiles, muxAssets, made, {})

\* an optional field of .set({...}): undefined leaves the column as it is
setOr(field, old) == IF field = Null THEN old ELSE Get(field)

\* Faulty variant of videosUpdate: the update does not compare the owner.
videosUpdateAnyOwner(ctxUserId, input) ==
    IF input.id = Null THEN Refuse("BAD_REQUEST", {})
    ELSE IF Get(input.id) \notin DOMAIN videos THEN Refuse("NOT_FOUND", {})
    ELSE
    LET id == Get(input.id)
        row == [videos[id] EXCEPT !.categoryId = setOr(input.categoryId, @),
                                  !.visibility = setOr(input.visibility, @)]
    IN  Removal("ok", Some(returnedVideo(id, row)), [videos EXCEPT ![id] = row],
                utFiles, muxAssets, {}, {})

\* videos.update: BAD_REQUEST without an id; the update of categoryId and
\* visibility (title and description are not modelled) where id and userId
\* match; NOT_FOUND when no row was updated
videosUpdate(ctxUserId, input) ==
    IF input.id = Null THEN Refuse("BAD_REQUEST", {})
    ELSE IF ~ownVideo(Get(input.id), ctxUserId) THEN Refuse("NOT_FOUND", {})
    ELSE
    LET id == Get(input.id)
        row == [videos[id] EXCEPT !.categoryId = setOr(input.categoryId, @),
                                  !.visibility = setOr(input.visibility, @)]
    IN  Removal("ok", Some(returnedVideo(id, row)), [videos EXCEPT ![id] = row],
                utFiles, muxAssets, {}, {})

\* videos.revalidate.  assetId: the asset_id of the upload the provider
\* returns (Null: none yet); playbackId: the first playback id of the asset
\* it returns (Null: playback_ids is undefined, and .set() skips the column).
videosRevalidate(ctxUserId, input, assetId, playbackId) ==
    IF ~ownVideo(input.id, ctxUserId) THEN Refuse("NOT_FOUND", {})
    ELSE IF videos[input.id].muxUploadId = Null THEN Refuse("BAD_REQUEST", {})
    ELSE
    LET existing == videos[input.id]
        uploadCall == ProviderCall("MUX", "uploads.retrieve", existing.muxUploadId, FALSE)
        assetCall == ProviderCall("MUX", "assets.retrieve", assetId, FALSE)
        row == [existing EXCEPT !.muxAssetId = assetId,
                                !.muxPlaybackId = IF playbackId = Null THEN @ ELSE playbackId]
    IN  IF assetId = Null THEN Refuse("BAD_REQUEST", {uploadCall})
        ELSE Removal("ok", Some(returnedVideo(input.id, row)),
                     [videos EXCEPT ![input.id] = row],
                     utFiles, muxAssets, {uploadCall, assetCall}, {})

\* videos.restoreThumbnail: the lookup by (id, userId); when the video has a
\* thumbnailKey, utApi.deleteFiles (a failure propagates) and the thumbnail
\* columns set to null; then BAD_REQUEST when the video read at the start
\* has no muxPlaybackId; else thumbnailUrl set to the provider's image.
videosRestoreThumbnail(ctxUserId, input, utThrows) ==
    IF ~ownVideo(input.id, ctxUserId) THEN Refuse("NOT_FOUND", {})
    ELSE
    LET existing == videos[input.id]
        hasThumbnail == existing.thumbnailKey # Null
        utCall == IF hasThumbnail
                  THEN {ProviderCall("UploadThing", "deleteFiles", existing.thumbnailKey, utThrows)}
                  ELSE {}
        cleared == IF hasThumbnail THEN clearThumbnail(existing) ELSE existing
        files == utFiles \ existing.thumbnailKey
        restored == [cleared EXCEPT !.thumbnailUrl = Some("mux")]
    IN  IF hasThumbnail /\ utThrows THEN Refuse("INTERNAL_SERVER_ERROR", utCall)
        ELSE IF existing.muxPlaybackId = Null
        THEN Removal("BAD_REQUEST", Null, [videos EXCEPT ![input.id] = cleared],
                     files, muxAssets, utCall, {})
        ELSE Removal("ok", Some(returnedVideo(input.id, restored)),
                     [videos EXCEPT ![input.id] = restored],
                     files, muxAssets, utCall, {})

\* ---------------------------------------------------------- playlistsRouter
NotFound(nreads) == Response("NOT_FOUND", <<>>, Null, nreads)

\* db.$count(playlistVideos, eq(playlistVideos.playlistId, playlists.id))
videoCount(id) == Cardinality({pv \in playlistVideos : pv.playlistId = id})

playlistRow(id) ==
    [id |-> id, userId |-> playlists[id].userId, updatedAt |-> playlists[id].updatedAt,
     videoCount |-> videoCount(id)]

playlistsGetMany(ctxUserId, input, c) ==
    IF ~inputValid(input) THEN BadRequest
    ELSE listQuery(input,
        {r \in {playlistRow(id) : id \in DOMAIN playlists} :
            /\ r.userId = ctxUserId
            /\ cursorWhere(r.updatedAt, r.id, c, "updatedAt")},
        "updatedAt", "updatedAt", 0)

\* SELECT EXISTS (... pv.playlist_id = playlists.id AND pv.video_id = videoId)
containsVideo(id, videoId) ==
    \E pv \in playlistVideos : pv.playlistId = id /\ pv.videoId = videoId

playlistForVideoRow(id, videoId) ==
    [id |-> id, userId |-> playlists[id].userId, updatedAt |-> playlists[id].updatedAt,
     videoCount |-> videoCount(id), containsVideo |-> containsVideo(id, videoId)]

playlistsGetManyForVideo(ctxUserId, input, c) ==
    IF ~inputValid(input) THEN BadRequest
    ELSE listQuery(input,
        {r \in {playlistForVideoRow(id, input.videoId) : id \in DOMAIN playlists} :
            /\ r.userId = ctxUserId
            /\ cursorWhere(r.updatedAt, r.id, c, "updatedAt")},
        "updatedAt", "updatedAt", 0)

\* db.$with('viewer_video_views'): (videoId, viewedAt) of the caller's views
viewerVideoViews(userId) ==
    {[videoId |-> v.videoId, viewedAt |-> v.updatedAt] :
        v \in {w \in videoViews : w.userId = userId}}

\* videos innerJoin viewer_video_views on videos.id = videoId
historyRows(userId) ==
    {[id |-> v.videoId, userId |-> videos[v.videoId].userId,
      visibility |-> videos[v.videoId].visibility,
      updatedAt |-> videos[v.videoId].updatedAt,
      viewedAt |-> v.viewedAt, viewCount |-> viewCount(v.videoId)] :
        v \in {w \in viewerVideoViews(userId) : w.videoId \in DOMAIN videos}}

\* the rows are ordered by desc(videos.updatedAt), desc(videos.id) while the
\* where clause and the cursor use viewedAt
playlistsGetHistory(ctxUserId, input, c) ==
    IF ~inputValid(input) THEN BadRequest
    ELSE listQuery(input,
        {r \in historyRows(ctxUserId) :
            /\ r.visibility = "public"
            /\ cursorWhere(r.viewedAt, r.id, c, "viewedAt")},
        "updatedAt", "viewedAt", 0)

\* db.$with('viewer_video_reactions'): (videoId, likedAt) of the caller's likes
viewerVideoReactions(userId) ==
    {[videoId |-> v.videoId, likedAt |-> v.createdAt] :
        v \in {w \in videoReactions : w.userId = userId /\ w.type = "like"}}

likedRows(userId) ==
    {[id |-> v.videoId, userId |-> videos[v.videoId].userId,
      visibility |-> videos[v.videoId].visibility,
      updatedAt |-> videos[v.videoId].updatedAt,
      likedAt |-> v.likedAt, viewCount |-> viewCount(v.videoId)] :
        v \in {w \in viewerVideoReactions(userId) : w.videoId \in DOMAIN videos}}

playlistsGetLiked(ctxUserId, input, c) ==
    IF ~inputValid(input) THEN BadRequest
    ELSE listQuery(input,
        {r \in likedRows(ctxUserId) :
            /\ r.visibility = "public"
            /\ cursorWhere(r.likedAt, r.id, c, "likedAt")},
        "likedAt", "likedAt", 0)

\* select().from(playlists).where(and(eq(id, playlistId), eq(userId, userId)))
existingPlaylist(playlistId, userId) ==
    playlistId \in DOMAIN playlists /\ playlists[playlistId].userId = userId

\* db.$with('playlist_videos'): the video ids of the playlist
videosFromPlaylist(playlistId) ==
    {pv.videoId : pv \in {q \in playlistVideos : q.playlistId = playlistId}}

playlistsGetVideos(ctxUserId, input, c) ==
    IF ~inputValid(input) THEN BadRequest
    ELSE IF ~existingPlaylist(input.playlistId, ctxUserId) THEN NotFound(1)
    ELSE listQuery(input,
        {r \in {videoRow(id) : id \in DOMAIN videos \cap videosFromPlaylist(input.playlistId)} :
            /\ r.visibility = "public"
            /\ cursorWhere(r.updatedAt, r.id, c, "updatedAt")},
        "updatedAt", "updatedAt", 1)

\* What a playlist procedure answers and the tables it leaves: the returned
\* row (Null when it throws), the returned items and the contents of playlists and playlistVideos
\* after the call.
Outcome(status, data, pls, pvs) ==
    [status |-> status, data |-> data, items |-> <<>>,
     playlists |-> pls, playlistVideos |-> pvs]

\* throw new TRPCError({ code }): nothing is returned and nothing was written
Throw(code) == Outcome(code, Null, playlists, playlistVideos)

\* the row .returning() / select() yields for a playlist
playlistRecord(id) ==
    [id |-> id, userId |-> playlists[id].userId, updatedAt |-> playlists[id].updatedAt]

playlistVideoRecord(playlistId, videoId) == [playlistId |-> playlistId, videoId |-> videoId]

\* select().from(videos).where(eq(videos.id, videoId))
existingVideo(videoId) == videoId \in DOMAIN videos

\* select().from(playlistVideos).where(and(eq(playlistId), eq(videoId)))
existingPlaylistVideo(playlistId, videoId) ==
    \E pv \in playlistVideos : pv.playlistId = playlistId /\ pv.videoId = videoId

playlistsAddVideo(ctxUserId, input) ==
    IF ~existingPlaylist(input.playlistId, ctxUserId) THEN Throw("NOT_FOUND")
    ELSE IF ~existingVideo(input.videoId) THEN Throw("NOT_FOUND")
    ELSE IF existingPlaylistVideo(input.playlistId, input.videoId) THEN Throw("CONFLICT")
    ELSE Outcome("ok", Some(playlistVideoRecord(input.playlistId, input.videoId)),
                 playlists,
                 playlistVideos \cup {playlistVideoRecord(input.playlistId, input.videoId)})

\* Faulty variant of playlistsRemoveVideo: the delete does not compare the
\* video, so the whole playlist is emptied.
playlistsRemoveVideoAnyVideo(ctxUserId, input) ==
    IF ~existingPlaylist(input.playlistId, ctxUserId) THEN Throw("NOT_FOUND")
    ELSE IF ~existingVideo(input.videoId) THEN Throw("NOT_FOUND")
    ELSE IF ~existingPlaylistVideo(input.playlistId, input.videoId) THEN Throw("NOT_FOUND")
    ELSE Outcome("ok", Some(playlistVideoRecord(input.playlistId, input.videoId)),
                 playlists,
                 {pv \in playlistVideos : pv.playlistId # input.playlistId})

playlistsRemoveVideo(ctxUserId, input) ==
    IF ~existingPlaylist(input.playlistId, ctxUserId) THEN Throw("NOT_FOUND")
    ELSE IF ~existingVideo(input.videoId) THEN Throw("NOT_FOUND")
    ELSE IF ~existingPlaylistVideo(input.playlistId, input.videoId) THEN Throw("NOT_FOUND")
    ELSE Outcome("ok", Some(playlistVideoRecord(input.playlistId, input.videoId)),
                 playlists,
                 {pv \in playlistVideos :
                    ~(pv.playlistId = input.playlistId /\ pv.videoId = input.videoId)})

playlistsGetOne(ctxUserId, input) ==
    IF ~existingPlaylist(input.id, ctxUserId) THEN Throw("NOT_FOUND")
    ELSE Outcome("ok", Some(playlistRecord(input.id)), playlists, playlistVideos)

\* the rows of playlist_videos that reference a deleted playlist go with it
\* (foreign key on playlists.id)
withoutPlaylist(playlistId) == {pv \in playlistVideos : pv.playlistId # playlistId}

\* Faulty variant of playlistsRemove: the delete does not compare the owner.
playlistsRemoveAnyOwner(ctxUserId, input) ==
    IF input.id \notin DOMAIN playlists THEN Throw("NOT_FOUND")
    ELSE Outcome("ok", Some(playlistRecord(input.id)),
                 [id \in DOMAIN playlists \ {input.id} |-> playlists[id]],
                 withoutPlaylist(input.id))

\* db.delete(playlists).where(and(eq(id, id), eq(userId, userId))).returning()
playlistsRemove(ctxUserId, input) ==
    IF ~existingPlaylist(input.id, ctxUserId) THEN Throw("NOT_FOUND")
    ELSE Outcome("ok", Some(playlistRecord(input.id)),
                 [id \in DOMAIN playlists \ {input.id} |-> playlists[id]],
                 withoutPlaylist(input.id))

\* ------------------------------------------------------------ the client
\* Faulty variant of selectOnly: a page fetch also records a view of the
\* caller on the first video.
selectAndRecordView ==
    /\ videoViews' = videoViews \cup
            {[userId |-> req.ctxUserId, videoId |-> id, updatedAt |-> 1] :
                id \in {i \in DOMAIN videos : i = 1}}
    /\ UNCHANGED <<videos, videoReactions, subscriptions, playlists, playlistVideos,
                   providers>>

\* The list procedures issue db.select / db.$with / db.$count only: no
\* insert, update or delete, and no call of mux, UTApi or workflow.
selectOnly == UNCHANGED <<store, providers>>

\* One page fetch of the chain: the procedure named by the query answers
\* resp; the client keeps the items and, on success, the next cursor.
Fetch(resp) ==
    /\ result' = resp
    /\ sent' = cursor
    /\ cursor' = IF resp.status = "ok" THEN resp.nextCursor ELSE cursor
    /\ visited' = visited \o resp.items
    /\ calls' = calls + 1
    /\ reads' = reads + resp.reads
    /\ selectOnly
    /\ UNCHANGED <<req, first, written, concurrent, provider>>

\* The chain goes on while no page was fetched yet or the last page named a
\* next cursor.
CanFetch == calls = 0 \/ (result.status = "ok" /\ result.nextCursor # Null)

VideosGetMany ==
    /\ req.proc = "videos.getMany" /\ CanFetch
    /\ Fetch(videosGetMany(req.input, cursor))

VideosGetManyTrending ==
    /\ req.proc = "videos.getManyTrending" /\ CanFetch
    /\ Fetch(videosGetManyTrending(req.input, cursor))

VideosGetManySubscribed ==
    /\ req.proc = "videos.getManySubscribed" /\ CanFetch
    /\ Fetch(videosGetManySubscribed(req.ctxUserId, req.input, cursor))

PlaylistsGetMany ==
    /\ req.proc = "playlists.getMany" /\ CanFetch
    /\ Fetch(playlistsGetMany(req.ctxUserId, req.input, cursor))

PlaylistsGetManyForVideo ==
    /\ req.proc = "playlists.getManyForVideo" /\ CanFetch
    /\ Fetch(playlistsGetManyForVideo(req.ctxUserId, req.input, cursor))

PlaylistsGetHistory ==
    /\ req.proc = "playlists.getHistory" /\ CanFetch
    /\ Fetch(playlistsGetHistory(req.ctxUserId, req.input, cursor))

PlaylistsGetLiked ==
    /\ req.proc = "playlists.getLiked" /\ CanFetch
    /\ Fetch(playlistsGetLiked(req.ctxUserId, req.input, cursor))

PlaylistsGetVideos ==
    /\ req.proc = "playlists.getVideos" /\ CanFetch
    /\ Fetch(playlistsGetVideos(req.ctxUserId, req.input, cursor))

Next ==
    \/ VideosGetMany
    \/ VideosGetManyTrending
    \/ VideosGetManySubscribed
    \/ PlaylistsGetMany
    \/ PlaylistsGetManyForVideo
    \/ PlaylistsGetHistory
    \/ PlaylistsGetLiked
    \/ PlaylistsGetVideos

\* ------------------------------------------------------- initial stores
\* The tables are built from one choice per record identifier.  Every
\* endpoint gets the stores that vary the columns its query reads; the
\* other columns hold fixed values.  Rows of the relation tables refer to
\* existing videos and playlists only, and hold at most one row per pair.
Owner(id) == IF id % 2 = 1 THEN "u1" ELSE "u2"
Category(id) == IF id % 3 = 0 THEN "c2" ELSE "c1"
Caller == "u1"
Other == "u2"

At(u, t) == [userId |-> u, at |-> t]

\* a video: its visibility ("absent": no row), updatedAt, who viewed it and
\* when, who liked/disliked it and when, the playlists that hold it
Video(vis, t, views, likes, dislikes, lists) ==
    [vis |-> vis, updatedAt |-> t, views |-> views, likes |-> likes,
     dislikes |-> dislikes, lists |-> lists]

Present(ch) == {id \in VideoIds : ch[id].vis # "absent"}

videosOf(ch) ==
    [id \in Present(ch) |->
        [userId |-> Owner(id), categoryId |-> Category(id),
         visibility |-> ch[id].vis, updatedAt |-> ch[id].updatedAt]]

videoViewsOf(ch) ==
    UNION {{[userId |-> w.userId, videoId |-> id, updatedAt |-> w.at] :
                w \in ch[id].views} : id \in Present(ch)}

videoReactionsOf(ch) ==
    UNION {{[userId |-> w.userId, videoId |-> id, type |-> "like", createdAt |-> w.at] :
                w \in ch[id].likes}
           \cup {[userId |-> w.userId, videoId |-> id, type |-> "dislike", createdAt |-> w.at] :
                w \in ch[id].dislikes} : id \in Present(ch)}

playlistVideosOf(ch, pl) ==
    UNION {{[playlistId |-> p, videoId |-> id] : p \in ch[id].lists \cap DOMAIN pl} :
                id \in Present(ch)}

\* a playlist: its owner ("absent": no row) and updatedAt
Playlist(owner, t) == [owner |-> owner, updatedAt |-> t]

playlistsOf(pch) ==
    [id \in {i \in PlaylistIds : pch[i].owner # "absent"} |->
        [userId |-> pch[id].owner, updatedAt |-> pch[id].updatedAt]]

PlainVideo(vis, t) == Video(vis, t, {At(Other, 1)}, {}, {}, {2})

\* videos.getMany, getManySubscribed: visibility and updatedAt vary
VideoChoices ==
    {PlainVideo("absent", 1), PlainVideo("private", 1)}
    \cup {PlainVideo("public", t) : t \in Times}

\* videos.getManyTrending: visibility and the number of views vary
TrendingChoices ==
    {PlainVideo("absent", 1), Video("private", 1, {At(Caller, 1)}, {}, {}, {})}
    \cup {Video("public", 1, vs, {}, {}, {}) :
            vs \in {{}, {At(Caller, 1)}, {At(Caller, 1), At(Other, 1)}}}

\* playlists.getHistory: whether the caller viewed the video, when, and the
\* video's updatedAt (equal to viewedAt, or mirrored) vary
HistoryChoices ==
    {PlainVideo("public", 1), Video("private", 1, {At(Caller, 1)}, {}, {}, {})}
    \cup {Video("public", u, {At(Caller, t)}, {}, {}, {}) :
            <<t, u>> \in {<<t, t>> : t \in Times} \cup {<<t, MaxTime + 1 - t>> : t \in Times}}

\* playlists.getLiked: the caller's reaction and its createdAt vary
LikedChoices ==
    {PlainVideo("public", 1),
     Video("public", 1, {}, {At(Other, 1)}, {At(Caller, 1)}, {}),
     Video("private", 1, {}, {At(Caller, 1)}, {}, {})}
    \cup {Video("public", 1, {}, {At(Caller, t)}, {}, {}) : t \in Times}

\* playlists.getVideos: membership in playlist 1, visibility, updatedAt vary
PlaylistVideoChoices ==
    {PlainVideo("public", 1), Video("private", 1, {}, {}, {}, {1, 2})}
    \cup {Video("public", t, {}, {}, {}, {1}) : t \in Times}

\* playlists.getMany, getManyForVideo: owner and updatedAt vary
PlaylistChoices ==
    {Playlist("absent", 1), Playlist(Other, 1)} \cup {Playlist(Caller, t) : t \in Times}

DefaultVideos == [id \in VideoIds |-> PlainVideo("public", 1)]
DefaultPlaylists == [id \in PlaylistIds |-> Playlist(Owner(id), 1)]
DefaultSubscriptions == {[viewerId |-> Other, creatorId |-> Caller]}

SubscriptionChoices ==
    {{}, {[viewerId |-> Caller, creatorId |-> Other]},
     {[viewerId |-> Caller, creatorId |-> Caller], [viewerId |-> Caller, creatorId |-> Other]},
     DefaultSubscriptions}

\* the optional filters of videos.getMany
GetManyFilters ==
    {[userId |-> Null, categoryId |-> Null],
     [userId |-> Some(Caller), categoryId |-> Null],
     [userId |-> Some(""), categoryId |-> Null],
     [userId |-> Null, categoryId |-> Some("c1")],
     [userId |-> Some(Other), categoryId |-> Some("c1")]}

\* limits a client may send: 0, 0.5, 1, 1.5, 2 .. MaxId, 100, 100.5, 101
LimitInputs ==
    {Num(n) : n \in (0..MaxId) \cup {MaxLimit, MaxLimit + 1}}
    \cup {NumHalf(0), NumHalf(1), NumHalf(MaxLimit)}

\* two sessions of the signed-in user, none of them in a call
Clients == {"tab1", "tab2"}
InFlight(pc, proc, input, status, done) ==
    [pc |-> pc, proc |-> proc, input |-> input, status |-> status, done |-> done]
Idle == [c \in Clients |-> InFlight("idle", "none", [playlistId |-> 1, videoId |-> 1], "none", 0)]

\* ------------------------------------------------- TRPCProvider's query client
\* The module of TRPCProvider is loaded once in each environment: the server
\* process and each browser tab, every one with its own browserQueryClient.
Envs == {"server"} \cup Clients

\* typeof window === 'undefined' is true on the server only
hasWindow(e) == e \in Clients

\* makeQueryClient(): a new client, told apart from all made before by its
\* number
makeQueryClient == 1 + Cardinality(UNION {created[e] : e \in Envs})

\* What a call of getQueryClient in environment e returns and leaves in the
\* module variable, and the clients it made.
Got(client, variable, made) == [client |-> client, browserQueryClient |-> variable, made |-> made]

\* Faulty variant of getQueryClient: the browser branch does not keep the
\* client it made.
getQueryClientNotKept(e) ==
    Got(makeQueryClient, browserQueryClient[e], {makeQueryClient})

getQueryClient(e) ==
    IF ~hasWindow(e)
    THEN Got(makeQueryClient, browserQueryClient[e], {makeQueryClient})
    ELSE IF browserQueryClient[e] = Null
    THEN Got(makeQueryClient, Some(makeQueryClient), {makeQueryClient})
    ELSE Got(Get(browserQueryClient[e]), browserQueryClient[e], {})

\* no module loaded has rendered the provider yet
NotRendered ==
    /\ browserQueryClient = [e \in Envs |-> Null]
    /\ created = [e \in Envs |-> {}]
    /\ returned = [e \in Envs |-> <<>>]
    /\ mounted = [e \in Envs |-> "none"]

Setup(ch, pch, subs, proc, input, c) ==
    /\ videos = videosOf(ch)
    /\ videoViews = videoViewsOf(ch)
    /\ videoReactions = videoReactionsOf(ch)
    /\ subscriptions = subs
    /\ playlists = playlistsOf(pch)
    /\ playlistVideos = playlistVideosOf(ch, playlistsOf(pch))
    /\ req = [proc |-> proc, ctxUserId |-> Caller, input |-> input]
    /\ cursor = c
    /\ first = c
    /\ sent = Null
    /\ result = Response("none", <<>>, Null, 0)
    /\ visited = <<>>
    /\ calls = 0
    /\ reads = 0
    /\ utFiles = {}
    /\ muxAssets = {}
    /\ providerCalls = {}
    /\ written = {}
    /\ inflight = Idle
    /\ pairKey = TRUE
    /\ NotRendered

\* cursors a client may send: null, or any well-shaped { id, <k> }
CursorInputs(k, keys) ==
    {Null} \cup {Some(Cursor(id, k, v)) : id \in 1..MaxId, v \in keys}

Counts == 0..Cardinality(Users)

Init ==
    \E limit \in LimitInputs :
        \/ \E ch \in [VideoIds -> VideoChoices], f \in GetManyFilters, c \in CursorInputs("updatedAt", Times) :
              Setup(ch, DefaultPlaylists, DefaultSubscriptions, "videos.getMany",
                    [userId |-> f.userId, categoryId |-> f.categoryId, limit |-> limit], c)
        \/ \E ch \in [VideoIds -> TrendingChoices], c \in CursorInputs("viewCount", Counts) :
              Setup(ch, DefaultPlaylists, DefaultSubscriptions, "videos.getManyTrending",
                    [limit |-> limit], c)
        \/ \E ch \in [VideoIds -> VideoChoices], subs \in SubscriptionChoices, c \in CursorInputs("updatedAt", Times) :
              Setup(ch, DefaultPlaylists, subs, "videos.getManySubscribed",
                    [limit |-> limit], c)
        \/ \E pch \in [PlaylistIds -> PlaylistChoices], c \in CursorInputs("updatedAt", Times) :
              Setup(DefaultVideos, pch, DefaultSubscriptions, "playlists.getMany",
                    [limit |-> limit], c)
        \/ \E pch \in [PlaylistIds -> PlaylistChoices], c \in CursorInputs("updatedAt", Times) :
              Setup(DefaultVideos, pch, DefaultSubscriptions, "playlists.getManyForVideo",
                    [videoId |-> 1, limit |-> limit], c)
        \/ \E ch \in [VideoIds -> HistoryChoices], c \in CursorInputs("viewedAt", Times) :
              Setup(ch, DefaultPlaylists, DefaultSubscriptions, "playlists.getHistory",
                    [limit |-> limit], c)
        \/ \E ch \in [VideoIds -> LikedChoices], c \in CursorInputs("likedAt", Times) :
              Setup(ch, DefaultPlaylists, DefaultSubscriptions, "playlists.getLiked",
                    [limit |-> limit], c)
        \/ \E ch \in [VideoIds -> PlaylistVideoChoices], playlistId \in {1, 2}, c \in CursorInputs("updatedAt", Times) :
              Setup(ch, DefaultPlaylists, DefaultSubscriptions, "playlists.getVideos",
                    [playlistId |-> playlistId, limit |-> limit], c)

Spec == Init /\ [][Next]_vars

\* ------------------------------------------------- the playlist procedures
\* Calls of the playlist procedures by one signed-in user, one after the
\* other, over stores in which each playlist is absent, another user's or the
\* caller's.
MaxOps == 2

Request(proc, input) == [proc |-> proc, ctxUserId |-> Caller, input |-> input]

\* One call: the request q is answered by out, whose tables replace the
\* stored ones.
Call(q, out) ==
    /\ calls < MaxOps
    /\ req' = q
    /\ result' = [status |-> out.status, data |-> out.data, items |-> out.items,
                  nextCursor |-> Null, reads |-> 0]
    /\ playlists' = out.playlists
    /\ playlistVideos' = out.playlistVideos
    /\ calls' = calls + 1
    /\ UNCHANGED <<videos, videoViews, videoReactions, subscriptions,
                   cursor, sent, visited, reads, first, providers, written, concurrent, provider>>

PlaylistsAddVideo ==
    \E playlistId \in PlaylistIds, videoId \in VideoIds :
        LET input == [playlistId |-> playlistId, videoId |-> videoId]
        IN  Call(Request("playlists.addVideo", input), playlistsAddVideo(Caller, input))

PlaylistsRemoveVideo ==
    \E playlistId \in PlaylistIds, videoId \in VideoIds :
        LET input == [playlistId |-> playlistId, videoId |-> videoId]
        IN  Call(Request("playlists.removeVideo", input), playlistsRemoveVideo(Caller, input))

PlaylistsGetOne ==
    \E id \in PlaylistIds :
        Call(Request("playlists.getOne", [id |-> id]), playlistsGetOne(Caller, [id |-> id]))

PlaylistsRemove ==
    \E id \in PlaylistIds :
        Call(Request("playlists.remove", [id |-> id]), playlistsRemove(Caller, [id |-> id]))

\* the limits of the first page of a playlist: below, at and above the bounds
FirstPageLimits == {Num(MinLimit - 1), Num(MinLimit), Num(MaxLimit), Num(MaxLimit + 1)}

\* playlists.getVideos called once, with cursor = null
PlaylistsGetVideosFirstPage ==
    \E playlistId \in PlaylistIds, limit \in FirstPageLimits :
        LET input == [playlistId |-> playlistId, limit |-> limit]
            resp == playlistsGetVideos(Caller, input, Null)
        IN  Call(Request("playlists.getVideos", input),
                 [Outcome(resp.status, Null, playlists, playlistVideos)
                    EXCEPT !.items = resp.items])

NextPlaylists ==
    \/ PlaylistsAddVideo
    \/ PlaylistsRemoveVideo
    \/ PlaylistsGetOne
    \/ PlaylistsRemove
    \/ PlaylistsGetVideosFirstPage

\* videos 1..MaxId-1 are public, the last id has no video; video 1 is in
\* playlists 1 and 2, the others in playlist 2
LibraryVideos ==
    [id \in VideoIds |->
        IF id = MaxId THEN PlainVideo("absent", 1)
        ELSE Video("public", 1, {}, {}, {}, IF id = 1 THEN {1, 2} ELSE {2})]

LibraryPlaylistChoices == {Playlist("absent", 1), Playlist(Other, 1), Playlist(Caller, 1)}

InitPlaylists ==
    \E pch \in [PlaylistIds -> LibraryPlaylistChoices] :
        Setup(LibraryVideos, pch, DefaultSubscriptions, "none", [limit |-> Num(MinLimit)], Null)

SpecPlaylists == InitPlaylists /\ [][NextPlaylists]_vars

\* ------------------------------------------- writes during an enumeration
\* One enumeration of videos.getMany or playlists.getMany from cursor = null
\* while other requests insert, delete and modify records of the listed
\* table between its page fetches.
MaxWrites == 1

CanWrite(id) == id \notin written /\ Cardinality(written) < MaxWrites

Write(id) ==
    /\ written' = written \cup {id}
    /\ UNCHANGED <<videoViews, videoReactions, subscriptions, playlistVideos,
                   req, cursor, sent, result, visited, calls, reads, first, providers,
                   concurrent, provider>>

\* db.insert(videos).values({...}): a video that was not there
InsertVideo ==
    \E id \in VideoIds \ DOMAIN videos, vis \in {"public", "private"}, t \in Times :
        /\ req.proc = "videos.getMany" /\ CanWrite(id)
        /\ videos' = [i \in DOMAIN videos \cup {id} |->
                        IF i = id
                        THEN [userId |-> Owner(id), categoryId |-> Category(id),
                              visibility |-> vis, updatedAt |-> t]
                        ELSE videos[i]]
        /\ UNCHANGED playlists
        /\ Write(id)

\* db.delete(videos).where(eq(videos.id, id))
DeleteVideo ==
    \E id \in DOMAIN videos :
        /\ req.proc = "videos.getMany" /\ CanWrite(id)
        /\ videos' = [i \in DOMAIN videos \ {id} |-> videos[i]]
        /\ UNCHANGED playlists
        /\ Write(id)

\* db.update(videos).set({...}): the visibility or the sort key changes
UpdateVideo ==
    \E id \in DOMAIN videos, vis \in {"public", "private"}, t \in Times :
        /\ req.proc = "videos.getMany" /\ CanWrite(id)
        /\ <<vis, t>> # <<videos[id].visibility, videos[id].updatedAt>>
        /\ videos' = [videos EXCEPT ![id].visibility = vis, ![id].updatedAt = t]
        /\ UNCHANGED playlists
        /\ Write(id)

\* db.insert(playlists).values({ userId, name })
InsertPlaylist ==
    \E id \in PlaylistIds \ DOMAIN playlists, u \in Users, t \in Times :
        /\ req.proc = "playlists.getMany" /\ CanWrite(id)
        /\ playlists' = [i \in DOMAIN playlists \cup {id} |->
                            IF i = id THEN [userId |-> u, updatedAt |-> t]
                            ELSE playlists[i]]
        /\ UNCHANGED videos
        /\ Write(id)

\* db.delete(playlists).where(...)
DeletePlaylist ==
    \E id \in DOMAIN playlists :
        /\ req.proc = "playlists.getMany" /\ CanWrite(id)
        /\ playlists' = [i \in DOMAIN playlists \ {id} |-> playlists[i]]
        /\ UNCHANGED videos
        /\ Write(id)

\* an update of a playlist row: its sort key changes
UpdatePlaylist ==
    \E id \in DOMAIN playlists, t \in Times :
        /\ req.proc = "playlists.getMany" /\ CanWrite(id)
        /\ t # playlists[id].updatedAt
        /\ playlists' = [playlists EXCEPT ![id].updatedAt = t]
        /\ UNCHANGED videos
        /\ Write(id)

NextWrites ==
    \/ VideosGetMany
    \/ PlaylistsGetMany
    \/ InsertVideo
    \/ DeleteVideo
    \/ UpdateVideo
    \/ InsertPlaylist
    \/ DeletePlaylist
    \/ UpdatePlaylist

\* the page sizes of the enumeration
EnumerationLimits == {Num(MinLimit), Num(MinLimit + 1)}

InitWrites ==
    \E limit \in EnumerationLimits :
        \/ \E ch \in [VideoIds -> VideoChoices] :
              Setup(ch, DefaultPlaylists, DefaultSubscriptions, "videos.getMany",
                    [userId |-> Null, categoryId |-> Null, limit |-> limit], Null)
        \/ \E pch \in [PlaylistIds -> PlaylistChoices] :
              Setup(DefaultVideos, pch, DefaultSubscriptions, "playlists.getMany",
                    [limit |-> limit], Null)

SpecWrites == InitWrites /\ [][NextWrites]_vars

\* ------------------------------------------------------- removing videos
\* Calls of videos.remove by one signed-in user over stores in which each
\* video is absent, another user's or the caller's, with or without a
\* thumbnail at the file-storage provider and an asset at the media provider.
MediaVideo(owner, hasThumbnail, hasAsset) ==
    [owner |-> owner, hasThumbnail |-> hasThumbnail, hasAsset |-> hasAsset]

MediaChoices ==
    {MediaVideo("absent", FALSE, FALSE)}
    \cup {MediaVideo(u, th, as) : u \in Users, th \in BOOLEAN, as \in BOOLEAN}

\* The row of video id: its thumbnail key, upload id, asset id and playback
\* id are id itself.  The thumbnail url is the uploaded file's ("utfs") when
\* there is a thumbnail key, else the media provider's image of the playback
\* id ("mux") when there is one, else null.
mediaRow(id, owner, hasThumbnail, hasUpload, hasAsset, hasPlayback) ==
    [userId |-> owner, categoryId |-> Category(id), visibility |-> "public",
     updatedAt |-> 1,
     thumbnailKey |-> IF hasThumbnail THEN Some(id) ELSE Null,
     thumbnailUrl |-> IF hasThumbnail THEN Some("utfs")
                      ELSE IF hasPlayback THEN Some("mux") ELSE Null,
     muxUploadId |-> IF hasUpload THEN Some(id) ELSE Null,
     muxAssetId |-> IF hasAsset THEN Some(id) ELSE Null,
     muxPlaybackId |-> IF hasPlayback THEN Some(id) ELSE Null]

\* a video with an asset has its upload and its playback id
mediaVideosOf(ch) ==
    [id \in {i \in VideoIds : ch[i].owner # "absent"} |->
        mediaRow(id, ch[id].owner, ch[id].hasThumbnail, ch[id].hasAsset, ch[id].hasAsset,
                 ch[id].hasAsset)]

InitVideos ==
    \E ch \in [VideoIds -> MediaChoices] :
        /\ videos = mediaVideosOf(ch)
        /\ utFiles = {id \in DOMAIN mediaVideosOf(ch) : ch[id].hasThumbnail}
        /\ muxAssets = {id \in DOMAIN mediaVideosOf(ch) : ch[id].hasAsset}
        /\ providerCalls = {}
        /\ videoViews = {} /\ videoReactions = {} /\ subscriptions = {}
        /\ playlists = playlistsOf([id \in PlaylistIds |-> Playlist("absent", 1)])
        /\ playlistVideos = {}
        /\ req = Request("none", [id |-> 1])
        /\ cursor = Null /\ sent = Null /\ first = Null
        /\ result = Response("none", <<>>, Null, 0)
        /\ visited = <<>> /\ calls = 0 /\ reads = 0 /\ written = {}
        /\ inflight = Idle /\ pairKey = TRUE
        /\ NotRendered

\* One call of a videos procedure by the caller: the request, the answer and
\* what the handler left in the table and at the providers.
Studio(q, out) ==
    /\ calls < MaxOps
    /\ req' = q
    /\ result' = [status |-> out.status, data |-> out.data, items |-> <<>>,
                  nextCursor |-> Null, reads |-> 0, logged |-> out.logged,
                  made |-> out.made]
    /\ videos' = out.videos
    /\ utFiles' = out.utFiles
    /\ muxAssets' = out.muxAssets
    /\ providerCalls' = providerCalls \cup out.made
    /\ calls' = calls + 1
    /\ UNCHANGED <<videoViews, videoReactions, subscriptions, playlists,
                   playlistVideos, cursor, sent, visited, reads, first, written,
                   concurrent, provider>>

VideosRemove ==
    \E id \in VideoIds, utThrows \in BOOLEAN, muxThrows \in BOOLEAN :
        Studio(Request("videos.remove", [id |-> id]),
               videosRemove(Caller, [id |-> id], utThrows, muxThrows))

NextVideos == VideosRemove

SpecVideos == InitVideos /\ [][NextVideos]_vars

\* ------------------------------------------------------- the studio calls
\* videos.update, videos.remove, videos.revalidate and
\* videos.restoreThumbnail on any video.  Video 1 is in any state of its
\* media columns, owned by the caller or by another user; the videos after
\* it are complete ones of alternating owners; the last id is not in the
\* table.
MediaProfiles ==
    {<<th, up, as, pb>> \in BOOLEAN \X BOOLEAN \X BOOLEAN \X BOOLEAN :
        (pb => as) /\ (as => up)}

studioVideos(owner, pr) ==
    [id \in VideoIds \ {MaxId} |->
        IF id = 1 THEN mediaRow(1, owner, pr[1], pr[2], pr[3], pr[4])
        ELSE mediaRow(id, Owner(id), TRUE, TRUE, TRUE, TRUE)]

InitStudio ==
    \E owner \in Users, pr \in MediaProfiles :
        /\ videos = studioVideos(owner, pr)
        /\ utFiles = {id \in DOMAIN videos : videos[id].thumbnailKey # Null}
        /\ muxAssets = {id \in DOMAIN videos : videos[id].muxAssetId # Null}
        /\ providerCalls = {}
        /\ videoViews = {} /\ videoReactions = {} /\ subscriptions = {}
        /\ playlists = playlistsOf([id \in PlaylistIds |-> Playlist("absent", 1)])
        /\ playlistVideos = {}
        /\ req = Request("none", [id |-> 1])
        /\ cursor = Null /\ sent = Null /\ first = Null
        /\ result = Response("none", <<>>, Null, 0)
        /\ visited = <<>> /\ calls = 0 /\ reads = 0 /\ written = {}
        /\ inflight = Idle /\ pairKey = TRUE
        /\ NotRendered

\* the fields of videoUpdateSchema the handler writes, each optional
UpdateInputs ==
    [id : {Null} \cup {Some(id) : id \in VideoIds},
     categoryId : {Null, Some("c2")},
     visibility : {Null, Some("private")}]

VideosUpdate ==
    \E input \in UpdateInputs :
        Studio(Request("videos.update", input), videosUpdate(Caller, input))

VideosRevalidate ==
    \E id \in VideoIds, hasAsset \in BOOLEAN, hasPlayback \in BOOLEAN :
        Studio(Request("videos.revalidate", [id |-> id]),
               videosRevalidate(Caller, [id |-> id],
                                IF hasAsset THEN Some(id) ELSE Null,
                                IF hasPlayback THEN Some(id) ELSE Null))

VideosRestoreThumbnail ==
    \E id \in VideoIds, utThrows \in BOOLEAN :
        Studio(Request("videos.restoreThumbnail", [id |-> id]),
               videosRestoreThumbnail(Caller, [id |-> id], utThrows))

NextStudio ==
    \/ VideosUpdate
    \/ VideosRemove
    \/ VideosRevalidate
    \/ VideosRestoreThumbnail

SpecStudio == InitStudio /\ [][NextStudio]_vars

\* ---------------------------------------- concurrent addVideo / removeVideo
\* Two sessions of the caller run playlists.addVideo and playlists.removeVideo
\* at the same time.  A call is two store round-trips, the lookups and the
\* write, and the other session's round-trips may fall between them.  The
\* table definition (its key) is not part of the procedures: both stores,
\* one that refuses a second row for a pair and one that accepts it, are
\* started from.  A row carries the session that inserted it, which tells
\* two rows of one pair apart.
Proceed(c, next) ==
    /\ inflight' = [inflight EXCEPT ![c] = next]
    /\ UNCHANGED <<videos, videoViews, videoReactions, subscriptions, playlists,
                   req, cursor, sent, result, visited, calls, reads, first,
                   providers, written, pairKey, provider>>

\* addVideo up to the insert: existingPlaylist, existingVideo,
\* existingPlaylistVideo
AddVideoLookups(c) ==
    \E playlistId \in PlaylistIds, videoId \in VideoIds :
        LET refused ==
                IF ~existingPlaylist(playlistId, Caller) \/ ~existingVideo(videoId)
                THEN "NOT_FOUND"
                ELSE IF existingPlaylistVideo(playlistId, videoId) THEN "CONFLICT"
                ELSE "none"
        IN  /\ inflight[c].pc = "idle" /\ inflight[c].done < MaxOps
            /\ Proceed(c, InFlight(IF refused = "none" THEN "insert" ELSE "idle",
                                   "playlists.addVideo",
                                   [playlistId |-> playlistId, videoId |-> videoId],
                                   refused,
                                   inflight[c].done + (IF refused = "none" THEN 0 ELSE 1)))
            /\ UNCHANGED playlistVideos

\* db.insert(playlistVideos).values({ playlistId, videoId }).returning()
AddVideoInsert(c) ==
    LET input == inflight[c].input
        refused == pairKey /\ existingPlaylistVideo(input.playlistId, input.videoId)
    IN  /\ inflight[c].pc = "insert"
        /\ playlistVideos' =
                IF refused THEN playlistVideos
                ELSE playlistVideos \cup
                        {[playlistId |-> input.playlistId, videoId |-> input.videoId,
                          insertedBy |-> c]}
        /\ Proceed(c, [inflight[c] EXCEPT
                            !.pc = "idle",
                            !.status = IF refused THEN "STORE_ERROR" ELSE "ok",
                            !.done = @ + 1])

\* removeVideo up to the delete
RemoveVideoLookups(c) ==
    \E playlistId \in PlaylistIds, videoId \in VideoIds :
        LET refused ==
                IF \/ ~existingPlaylist(playlistId, Caller)
                   \/ ~existingVideo(videoId)
                   \/ ~existingPlaylistVideo(playlistId, videoId)
                THEN "NOT_FOUND" ELSE "none"
        IN  /\ inflight[c].pc = "idle" /\ inflight[c].done < MaxOps
            /\ Proceed(c, InFlight(IF refused = "none" THEN "delete" ELSE "idle",
                                   "playlists.removeVideo",
                                   [playlistId |-> playlistId, videoId |-> videoId],
                                   refused,
                                   inflight[c].done + (IF refused = "none" THEN 0 ELSE 1)))
            /\ UNCHANGED playlistVideos

\* db.delete(playlistVideos).where(and(eq(playlistId), eq(videoId))).returning()
RemoveVideoDelete(c) ==
    LET input == inflight[c].input
        found == existingPlaylistVideo(input.playlistId, input.videoId)
    IN  /\ inflight[c].pc = "delete"
        /\ playlistVideos' =
                {pv \in playlistVideos :
                    ~(pv.playlistId = input.playlistId /\ pv.videoId = input.videoId)}
        /\ Proceed(c, [inflight[c] EXCEPT
                            !.pc = "idle",
                            !.status = IF found THEN "ok" ELSE "INTERNAL_SERVER_ERROR",
                            !.done = @ + 1])

NextConcurrent ==
    \/ \E c \in Clients : AddVideoLookups(c)
    \/ \E c \in Clients : AddVideoInsert(c)
    \/ \E c \in Clients : RemoveVideoLookups(c)
    \/ \E c \in Clients : RemoveVideoDelete(c)

InitConcurrent ==
    /\ pairKey \in BOOLEAN
    /\ NotRendered
    /\ inflight = Idle
    /\ videos = videosOf(LibraryVideos)
    /\ playlists = playlistsOf(DefaultPlaylists)
    /\ playlistVideos = {}
    /\ videoViews = {} /\ videoReactions = {} /\ subscriptions = {}
    /\ req = Request("none", [id |-> 1])
    /\ cursor = Null /\ sent = Null /\ first = Null
    /\ result = Response("none", <<>>, Null, 0)
    /\ visited = <<>> /\ calls = 0 /\ reads = 0 /\ written = {}
    /\ utFiles = {} /\ muxAssets = {} /\ providerCalls = {}

SpecConcurrent == InitConcurrent /\ [][NextConcurrent]_vars

\* ------------------------------------------------- renders of TRPCProvider
\* Every render of TRPCProvider calls getQueryClient.  The server renders
\* the provider for each request.  In a tab the initial render may suspend,
\* and React then throws the render away and renders again; once the render
\* is committed the provider re-renders with its parent.
MaxRenders == 4

TRPCProvider(e, phase) ==
    LET got == getQueryClient(e)
    IN  /\ calls < MaxRenders
        /\ browserQueryClient' = [browserQueryClient EXCEPT ![e] = got.browserQueryClient]
        /\ created' = [created EXCEPT ![e] = @ \cup got.made]
        /\ returned' = [returned EXCEPT ![e] = Append(@, got.client)]
        /\ mounted' = [mounted EXCEPT ![e] = phase]
        /\ calls' = calls + 1
        /\ UNCHANGED <<store, providers, req, cursor, sent, result, visited, reads,
                       first, written, concurrent>>

ServerRender == TRPCProvider("server", "none")

InitialRender ==
    \E e \in Clients, phase \in {"suspended", "committed"} :
        mounted[e] = "none" /\ TRPCProvider(e, phase)

RenderAfterSuspense ==
    \E e \in Clients, phase \in {"suspended", "committed"} :
        mounted[e] = "suspended" /\ TRPCProvider(e, phase)

Rerender ==
    \E e \in Clients : mounted[e] = "committed" /\ TRPCProvider(e, "committed")

NextProvider ==
    \/ ServerRender
    \/ InitialRender
    \/ RenderAfterSuspense
    \/ Rerender

InitProvider ==
    /\ NotRendered
    /\ pairKey = TRUE
    /\ inflight = Idle
    /\ videos = videosOf(LibraryVideos)
    /\ playlists = playlistsOf(DefaultPlaylists)
    /\ playlistVideos = {}
    /\ videoViews = {} /\ videoReactions = {} /\ subscriptions = {}
    /\ req = Request("none", [id |-> 1])
    /\ cursor = Null /\ sent = Null /\ first = Null
    /\ result = Response("none", <<>>, Null, 0)
    /\ visited = <<>> /\ calls = 0 /\ reads = 0 /\ written = {}
    /\ utFiles = {} /\ muxAssets = {} /\ providerCalls = {}

SpecProvider == InitProvider /\ [][NextProvider]_vars

\* ------------------------------------------------------------ properties
\* The attribute an endpoint's cursor carries beside the id.
SortKey ==
    CASE req.proc = "videos.getManyTrending" -> "viewCount"
      [] req.proc = "playlists.getHistory" -> "viewedAt"
      [] req.proc = "playlists.getLiked" -> "likedAt"
      [] OTHER -> "updatedAt"

\* The ids of the records an endpoint's filter selects, whatever the cursor.
\* An optional field of videos.getMany selects when it is set (a non-empty
\* string).
Matching ==
    CASE req.proc = "videos.getMany" ->
            {id \in DOMAIN videos :
                /\ videos[id].visibility = "public"
                /\ (req.input.userId \notin {Null, Some("")} =>
                        videos[id].userId = Get(req.input.userId))
                /\ (req.input.categoryId \notin {Null, Some("")} =>
                        videos[id].categoryId = Get(req.input.categoryId))}
      [] req.proc = "videos.getManyTrending" ->
            {id \in DOMAIN videos : videos[id].visibility = "public"}
      [] req.proc = "videos.getManySubscribed" ->
            {id \in DOMAIN videos :
                /\ videos[id].visibility = "public"
                /\ [viewerId |-> req.ctxUserId, creatorId |-> videos[id].userId]
                        \in subscriptions}
      [] req.proc \in {"playlists.getMany", "playlists.getManyForVideo"} ->
            {id \in DOMAIN playlists : playlists[id].userId = req.ctxUserId}
      [] req.proc = "playlists.getHistory" ->
            {id \in DOMAIN videos :
                /\ videos[id].visibility = "public"
                /\ \E v \in videoViews : v.userId = req.ctxUserId /\ v.videoId = id}
      [] req.proc = "playlists.getLiked" ->
            {id \in DOMAIN videos :
                /\ videos[id].visibility = "public"
                /\ \E v \in videoReactions :
                        v.userId = req.ctxUserId /\ v.videoId = id /\ v.type = "like"}
      [] req.proc = "playlists.getVideos" ->
            {id \in DOMAIN videos :
                /\ videos[id].visibility = "public"
                /\ [playlistId |-> req.input.playlistId, videoId |-> id] \in playlistVideos}

\* a is strictly below b in the order (k, id)
Below(a, b, k) == a[k] < b[k] \/ (a[k] = b[k] /\ a.id < b.id)

Descending(seq, k) == \A i \in 1..(Len(seq) - 1) : Below(seq[i + 1], seq[i], k)

Occurrences(seq, id) == Cardinality({i \in DOMAIN seq : seq[i].id = id})

\* the limit is an integer of [1, 100]
LimitOk == IsInteger(req.input.limit) /\ req.input.limit.n \in MinLimit..MaxLimit

\* playlists.getVideos names a playlist of the caller's
PlaylistOwned ==
    req.proc = "playlists.getVideos" =>
        /\ req.input.playlistId \in DOMAIN playlists
        /\ playlists[req.input.playlistId].userId = req.ctxUserId

\* A chain that started with cursor = null has ended.
ChainEnded == first = Null /\ calls >= 1 /\ ~CanFetch /\ LimitOk /\ PlaylistOwned

\* Every matching record was visited once, no record twice, in descending
\* (sortKey, id) order, and the last page had no next cursor.
Visited ==
    /\ result.status = "ok"
    /\ result.nextCursor = Null
    /\ \A id \in Matching : Occurrences(visited, id) = 1
    /\ \A i \in DOMAIN visited : Occurrences(visited, visited[i].id) = 1

Enumerated == Visited /\ Descending(visited, SortKey)

\* C1: on the seven endpoints ordered by their cursor key, chaining nextCursor
\* from cursor = null with a fixed integer limit of 1..100 visits every record
\* matching the filter exactly once, in descending (sortKey, id) order, and the
\* last call returns nextCursor = null.
C1_Completeness ==
    (ChainEnded /\ req.proc # "playlists.getHistory") => Enumerated

\* a chain of three pages of one item whose first two items share the sort key
C1_Witness ==
    /\ ChainEnded /\ req.proc # "playlists.getHistory"
    /\ calls = 3 /\ Len(visited) = 3
    /\ visited[1][SortKey] = visited[2][SortKey]

\* C2: chaining nextCursor from cursor = null on playlists.getHistory visits
\* every public video the caller has viewed exactly once and the last call
\* returns nextCursor = null, whatever viewedAt and the videos' updatedAt are.
C2_HistoryCompleteness ==
    (ChainEnded /\ req.proc = "playlists.getHistory") => Visited

\* C3: every page of the seven endpoints is sorted strictly descending by
\* (sortKey, id).
C3_PageSorted ==
    (result.status = "ok" /\ req.proc # "playlists.getHistory")
        => Descending(result.items, SortKey)

\* a page of at least two items where two consecutive items share the sort key
C3_Witness ==
    /\ result.status = "ok" /\ req.proc # "playlists.getHistory"
    /\ \E i \in 1..(Len(result.items) - 1) :
            /\ result.items[i][SortKey] = result.items[i + 1][SortKey]
            /\ result.items[i].id > result.items[i + 1].id
    /\ \E i \in 1..(Len(result.items) - 1) :
            result.items[i][SortKey] > result.items[i + 1][SortKey]

\* C4: every page of playlists.getHistory is sorted strictly descending by
\* (viewedAt, id).
C4_HistoryPageSorted ==
    (result.status = "ok" /\ req.proc = "playlists.getHistory")
        => Descending(result.items, "viewedAt")

\* C5: a returned page holds at most limit items, and exactly limit items
\* when its nextCursor is not null.
C5_LimitRespected ==
    result.status = "ok" =>
        /\ Len(result.items) <= req.input.limit.n
        /\ (result.nextCursor # Null => Len(result.items) = req.input.limit.n)

\* a page of two items, cut from three rows, that names a next cursor
C5_Witness ==
    /\ result.status = "ok" /\ result.nextCursor # Null
    /\ req.input.limit = Num(2) /\ Len(result.items) = 2

\* the sort value of the record id in the endpoint's order
SortValue(id) ==
    CASE req.proc = "videos.getManyTrending" ->
            Cardinality({v \in videoViews : v.videoId = id})
      [] req.proc = "playlists.getHistory" ->
            (CHOOSE v \in videoViews : v.userId = req.ctxUserId /\ v.videoId = id).updatedAt
      [] req.proc = "playlists.getLiked" ->
            (CHOOSE v \in videoReactions :
                v.userId = req.ctxUserId /\ v.videoId = id /\ v.type = "like").createdAt
      [] req.proc \in {"playlists.getMany", "playlists.getManyForVideo"} ->
            playlists[id].updatedAt
      [] OTHER -> videos[id].updatedAt

\* the matching records strictly below the cursor c in (sortKey, id) order
Remaining(c) ==
    {id \in Matching :
        c # Null => \/ SortValue(id) < Get(c)[SortKey]
                    \/ (SortValue(id) = Get(c)[SortKey] /\ id < Get(c).id)}

Ids(seq) == {seq[i].id : i \in DOMAIN seq}

\* C6: nextCursor is not null iff a record matching the filter and the cursor
\* predicate is missing from the page; it is then the (id, sortKey) of the
\* last item; and no chained call returns an empty trailing page.
C6_NextCursor ==
    result.status = "ok" =>
        /\ (result.nextCursor # Null <=> Remaining(sent) \ Ids(result.items) # {})
        /\ (result.nextCursor # Null =>
                /\ result.items # <<>>
                /\ Get(result.nextCursor).id = result.items[Len(result.items)].id
                /\ Get(result.nextCursor)[SortKey] =
                        SortValue(result.items[Len(result.items)].id))
        /\ (calls >= 2 => result.items # <<>>)

\* C7: every item of a page fetched with a cursor c is strictly below c in
\* (sortKey, id) order, so the cursor's record is not returned again and the
\* last item of a page is never the first item of the next page.
C7_BelowCursor ==
    (result.status = "ok" /\ sent # Null) =>
        /\ \A i \in DOMAIN result.items : Below(result.items[i], Get(sent), SortKey)
        /\ \A i \in DOMAIN result.items :
                ~(/\ result.items[i].id = Get(sent).id
                  /\ result.items[i][SortKey] = Get(sent)[SortKey])
        /\ (calls >= 2 /\ result.items # <<>> =>
                visited[Len(visited) - Len(result.items)].id # result.items[1].id)

\* a second page whose first item shares the sort key of the cursor
C7_Witness ==
    /\ result.status = "ok" /\ sent # Null /\ calls >= 2
    /\ result.items # <<>>
    /\ result.items[1][SortKey] = Get(sent)[SortKey]

\* C8: when no record matches the filter the call returns { items: [],
\* nextCursor: null } for every integer limit of 1..100 and every cursor.
C8_EmptyInput ==
    (calls >= 1 /\ LimitOk /\ PlaylistOwned /\ Matching = {}) =>
        /\ result.status = "ok"
        /\ result.items = <<>>
        /\ result.nextCursor = Null

\* a fetch with a cursor and limit 100 on an empty videos table
C8_Witness ==
    /\ calls = 1 /\ LimitOk /\ Matching = {}
    /\ DOMAIN videos = {} /\ req.proc = "videos.getManyTrending"
    /\ sent # Null /\ req.input.limit = Num(MaxLimit)
    /\ result.status = "ok"

\* the limit is below 1 or above 100
OutOfRange ==
    \/ req.input.limit.n < MinLimit
    \/ req.input.limit.n > MaxLimit
    \/ (req.input.limit.n = MaxLimit /\ req.input.limit.half)

\* C9: a limit below 1 or above 100 is rejected by validation and no store
\* read is executed; limit = 1 and limit = 100 are accepted and the query runs.
C9_ValidationBoundary ==
    calls >= 1 =>
        /\ (OutOfRange => result.status = "BAD_REQUEST" /\ reads = 0 /\ result.items = <<>>)
        /\ (req.input.limit \in {Num(MinLimit), Num(MaxLimit)} =>
                result.status # "BAD_REQUEST" /\ reads >= 1)

\* a request with limit = 101 was rejected
C9_Witness ==
    /\ calls = 1 /\ req.input.limit = Num(MaxLimit + 1)
    /\ result.status = "BAD_REQUEST" /\ reads = 0

\* C10: every limit that passes validation is an integer.
C10_IntegerLimit ==
    (calls >= 1 /\ result.status # "BAD_REQUEST") => IsInteger(req.input.limit)

\* ---------------------------------------------------------------------------
\* C12: a page fetch of any list endpoint, whether it succeeds or fails,
\* leaves every stored record (videos, playlists, playlistVideos, videoViews,
\* videoReactions, subscriptions) unchanged and makes no call to the media,
\* file-storage or workflow providers.
C12_ReadOnly == [][UNCHANGED <<store, providers>>]_vars

\* a chain fetched two pages over a store that holds views and playlist rows
C12_Witness ==
    /\ calls >= 2 /\ result.status = "ok" /\ result.items # <<>>
    /\ 1 \in DOMAIN videos

Min(a, b) == IF a < b THEN a ELSE b
Max(a, b) == IF a > b THEN a ELSE b

\* C14: on the seven endpoints ordered by their cursor key, a first call with
\* any well-shaped cursor, one that matches no record included, succeeds and
\* returns exactly the first min(limit, |S|) elements, in descending
\* (sortKey, id) order, of the set S of matching records strictly below the
\* cursor; nextCursor is not null iff |S| > limit.
C14_ArbitraryCursor ==
    (/\ calls = 1 /\ first # Null /\ LimitOk /\ PlaylistOwned
     /\ req.proc # "playlists.getHistory") =>
        /\ result.status = "ok"
        /\ Ids(result.items) \subseteq Remaining(first)
        /\ Len(result.items) = Min(req.input.limit.n, Cardinality(Remaining(first)))
        /\ Cardinality(Ids(result.items)) = Len(result.items)
        /\ \A i \in DOMAIN result.items :
                result.items[i][SortKey] = SortValue(result.items[i].id)
        /\ Descending(result.items, SortKey)
        /\ \A id \in Remaining(first) \ Ids(result.items) :
                \A i \in DOMAIN result.items :
                    \/ SortValue(id) < result.items[i][SortKey]
                    \/ (SortValue(id) = result.items[i][SortKey] /\ id < result.items[i].id)
        /\ (result.nextCursor # Null <=>
                Cardinality(Remaining(first)) > req.input.limit.n)

\* videos.getMany answered a cursor that matches no video (no video has the
\* cursor's id with the cursor's updatedAt) while more than limit records
\* were below it
C14_Witness ==
    /\ calls = 1 /\ first # Null /\ LimitOk /\ req.proc = "videos.getMany"
    /\ ~\E id \in DOMAIN videos :
            id = Get(first).id /\ videos[id].updatedAt = Get(first).updatedAt
    /\ Cardinality(Remaining(first)) > req.input.limit.n
    /\ result.status = "ok" /\ result.nextCursor # Null

VideoEndpoints ==
    {"videos.getMany", "videos.getManyTrending", "videos.getManySubscribed",
     "playlists.getHistory", "playlists.getLiked", "playlists.getVideos"}

\* C15: every item a video list endpoint returns is a public video, and
\* every item playlists.getMany or playlists.getManyForVideo returns is a
\* playlist of the caller's, whatever the cursor.
C15_OnlyMatching ==
    result.status = "ok" =>
        \A i \in DOMAIN result.items :
            /\ req.proc \in VideoEndpoints =>
                    /\ result.items[i].visibility = "public"
                    /\ result.items[i].id \in DOMAIN videos
                    /\ videos[result.items[i].id].visibility = "public"
            /\ req.proc \in {"playlists.getMany", "playlists.getManyForVideo"} =>
                    /\ result.items[i].userId = req.ctxUserId
                    /\ result.items[i].id \in DOMAIN playlists
                    /\ playlists[result.items[i].id].userId = req.ctxUserId

\* videos.getMany returned items for a synthesized cursor while a private
\* video was below that cursor
C15_Witness ==
    /\ calls = 1 /\ first # Null /\ req.proc = "videos.getMany"
    /\ result.status = "ok" /\ result.items # <<>>
    /\ \E id \in DOMAIN videos :
            /\ videos[id].visibility = "private"
            /\ Below([id |-> id, updatedAt |-> videos[id].updatedAt], Get(first), "updatedAt")

\* C16: in videos.getMany every request whose userId is a string, the empty
\* string included, returns only items with video.userId = userId, and every
\* request whose categoryId is a string returns only items with
\* video.categoryId = categoryId.
C16_OptionalFilters ==
    (req.proc = "videos.getMany" /\ result.status = "ok") =>
        \A i \in DOMAIN result.items :
            /\ req.input.userId # Null => result.items[i].userId = Get(req.input.userId)
            /\ req.input.categoryId # Null =>
                    result.items[i].categoryId = Get(req.input.categoryId)

\* the number of calls a chain over the matching records takes
ChainLength == Max(1, (Cardinality(Matching) + req.input.limit.n - 1) \div req.input.limit.n)

\* C17: on an unchanging collection every non-null nextCursor is strictly
\* below the cursor of the call that produced it, and a chain started with
\* cursor = null reaches nextCursor = null at call max(1, ceil(N / limit))
\* for N matching records, not earlier and not later.
C17_Termination ==
    /\ (result.status = "ok" /\ sent # Null /\ result.nextCursor # Null) =>
            Below(Get(result.nextCursor), Get(sent), SortKey)
    /\ (first = Null /\ calls >= 1 /\ LimitOk /\ PlaylistOwned) =>
            /\ result.status = "ok"
            /\ calls <= ChainLength
            /\ (result.nextCursor = Null <=> calls = ChainLength)

\* ---------------------------------------------------------------------------
ScopedProcedures ==
    {"playlists.getVideos", "playlists.getOne", "playlists.remove",
     "playlists.addVideo", "playlists.removeVideo"}

\* the playlist a request refers to
playlistIdOf(q) ==
    IF q.proc \in {"playlists.getOne", "playlists.remove"} THEN q.input.id
    ELSE q.input.playlistId

\* the request q is refused with NOT_FOUND, returns nothing and writes nothing
RefusedNotFound ==
    /\ result'.status = "NOT_FOUND"
    /\ result'.data = Null
    /\ result'.items = <<>>
    /\ UNCHANGED <<playlists, playlistVideos>>

\* a call of a playlist-scoped procedure for a playlist that does not exist
\* or is another user's
ForeignPlaylistCall ==
    /\ calls' = calls + 1
    /\ req'.proc \in ScopedProcedures
    /\ ~existingPlaylist(playlistIdOf(req'), req'.ctxUserId)

\* C11 as stated: getVideos, getOne, remove, addVideo and removeVideo called
\* for a playlist that does not exist or is not the caller's fail with
\* NOT_FOUND, return no playlist data and no items, and leave playlists and
\* playlistVideos unchanged.
C11_NotFound == [][ForeignPlaylistCall => RefusedNotFound]_vars

\* C11, amended: the same for every call that passes input validation (a
\* getVideos request whose limit is outside [1, 100] is refused BAD_REQUEST
\* before the playlist is looked up).
C11_NotFoundWhenValid ==
    [][(ForeignPlaylistCall /\ (req'.proc = "playlists.getVideos" => inputValid(req'.input)))
            => RefusedNotFound]_vars

\* playlists.remove was refused for a playlist of another user, which is
\* still stored with its videos
C11_Witness ==
    /\ req.proc = "playlists.remove" /\ result.status = "NOT_FOUND"
    /\ req.input.id \in DOMAIN playlists
    /\ playlists[req.input.id].userId # req.ctxUserId
    /\ \E pv \in playlistVideos : pv.playlistId = req.input.id

\* ---------------------------------------------------------------------------
\* the chain has ended
EnumerationEnded == calls >= 1 /\ ~CanFetch

\* the ids of the listed table
ListedIds ==
    IF req.proc = "playlists.getMany" THEN PlaylistIds ELSE VideoIds

OwnerRemoves ==
    /\ calls' = calls + 1
    /\ req'.proc = "videos.remove"
    /\ ownVideo(req'.input.id, req'.ctxUserId)

\* C19: videos.remove called by the video's owner deletes the row and returns
\* it whether or not the thumbnail deletion or the MUX asset deletion throws;
\* every such failure is logged and none aborts the removal or leaves the row
\* in the store.
C19_RemoveDespiteProviders ==
    [][OwnerRemoves =>
        /\ result'.status = "ok"
        /\ result'.data # Null
        /\ Get(result'.data).id = req'.input.id
        /\ Get(result'.data).userId = req'.ctxUserId
        /\ req'.input.id \notin DOMAIN videos'
        /\ \A id \in DOMAIN videos \ {req'.input.id} :
                id \in DOMAIN videos' /\ videos'[id] = videos[id]
        /\ result'.logged =
                {c.service : c \in {k \in providerCalls' \ providerCalls : k.threw}}]_vars

\* a removal went through although both provider calls threw: the row is
\* gone, the file and the asset are still at the providers
C19_Witness ==
    /\ req.proc = "videos.remove" /\ result.status = "ok"
    /\ result.logged = {"UploadThing", "MUX"}
    /\ req.input.id \notin DOMAIN videos
    /\ req.input.id \in utFiles \cap muxAssets

\* ---------------------------------------------------------------------------
\* the rows playlistVideos holds for a pair
Entries(playlistId, videoId) ==
    {pv \in playlistVideos : pv.playlistId = playlistId /\ pv.videoId = videoId}

\* playlistVideos holds at most one entry for each (playlistId, videoId) pair
AtMostOneEntry ==
    \A playlistId \in PlaylistIds, videoId \in VideoIds :
        Cardinality(Entries(playlistId, videoId)) <= 1

\* the same, over a store that refuses a second row for a pair
AtMostOneEntryWithKey == pairKey => AtMostOneEntry

\* two rows of one pair, each inserted by a call that answered ok
TwoEntries ==
    /\ ~AtMostOneEntry
    /\ \A c \in Clients : inflight[c].pc = "idle" /\ inflight[c].status = "ok"

\* ---------------------------------------------------------------------------
\* a call of proc for a playlist of the caller's and an existing video
OwnPlaylistCall(proc) ==
    /\ calls' = calls + 1
    /\ req'.proc = proc
    /\ existingPlaylist(req'.input.playlistId, req'.ctxUserId)
    /\ existingVideo(req'.input.videoId)

\* the entry the request names
RequestedEntry == playlistVideoRecord(req'.input.playlistId, req'.input.videoId)

\* C21: for a playlist of the caller's and an existing video, addVideo fails
\* with CONFLICT when the entry is already stored and removeVideo fails with
\* NOT_FOUND when it is not, both leaving playlistVideos unchanged; a
\* successful addVideo adds exactly that entry and a successful removeVideo
\* removes exactly that entry, every other entry staying as it was.
C21_EntryWrites ==
    [][/\ OwnPlaylistCall("playlists.addVideo") =>
            IF RequestedEntry \in playlistVideos
            THEN /\ result'.status = "CONFLICT" /\ result'.data = Null
                 /\ UNCHANGED playlistVideos
            ELSE /\ result'.status = "ok" /\ result'.data = Some(RequestedEntry)
                 /\ playlistVideos' = playlistVideos \cup {RequestedEntry}
       /\ OwnPlaylistCall("playlists.removeVideo") =>
            IF RequestedEntry \notin playlistVideos
            THEN /\ result'.status = "NOT_FOUND" /\ result'.data = Null
                 /\ UNCHANGED playlistVideos
            ELSE /\ result'.status = "ok" /\ result'.data = Some(RequestedEntry)
                 /\ playlistVideos' = playlistVideos \ {RequestedEntry}
       /\ (req'.proc \in {"playlists.addVideo", "playlists.removeVideo"}
                => UNCHANGED playlists)]_vars

\* removeVideo took one video out of a playlist of the caller's that still
\* holds another one
C21_Witness ==
    /\ req.proc = "playlists.removeVideo" /\ result.status = "ok"
    /\ existingPlaylist(req.input.playlistId, req.ctxUserId)
    /\ playlistVideoRecord(req.input.playlistId, req.input.videoId) \notin playlistVideos
    /\ \E pv \in playlistVideos : pv.playlistId = req.input.playlistId
\* ---------------------------------------------------------------------------
StudioProcedures ==
    {"videos.update", "videos.remove", "videos.revalidate", "videos.restoreThumbnail"}

\* the video id a studio request names (0: an update without an id)
videoIdOf(q) ==
    IF q.proc = "videos.update"
    THEN (IF q.input.id = Null THEN 0 ELSE Get(q.input.id))
    ELSE q.input.id

\* the step is a studio call on a stored video of another user
ForeignVideoCall ==
    /\ calls' = calls + 1
    /\ req'.proc \in StudioProcedures
    /\ videoIdOf(req') \in DOMAIN videos
    /\ videos[videoIdOf(req')].userId # req'.ctxUserId

\* C22: a call of videos.update, videos.remove, videos.revalidate or
\* videos.restoreThumbnail on a video whose userId differs from the caller's
\* id fails with NOT_FOUND, leaves that video's record in the table as it
\* was, and makes no call to the file-storage or media-processing provider.
C22_ForeignVideoUntouched ==
    [][ForeignVideoCall =>
            /\ result'.status = "NOT_FOUND"
            /\ videoIdOf(req') \in DOMAIN videos'
            /\ videos'[videoIdOf(req')] = videos[videoIdOf(req')]
            /\ result'.made = {}
            /\ UNCHANGED providers]_vars

\* reached: restoreThumbnail was refused on another user's video that has a
\* thumbnail file and an asset, both still at the providers
C22_Witness ==
    /\ req.proc = "videos.restoreThumbnail"
    /\ result.status = "NOT_FOUND"
    /\ req.input.id \in DOMAIN videos
    /\ videos[req.input.id].userId # req.ctxUserId
    /\ videos[req.input.id].thumbnailKey # Null
    /\ req.input.id \in utFiles \cap muxAssets
    /\ providerCalls = {}

\* ---------------------------------------------------------------------------
\* the step is restoreThumbnail by the owner of a video without a
\* muxPlaybackId, answered BAD_REQUEST
RestoreRefused ==
    /\ calls' = calls + 1
    /\ req'.proc = "videos.restoreThumbnail"
    /\ ownVideo(req'.input.id, req'.ctxUserId)
    /\ videos[req'.input.id].muxPlaybackId = Null
    /\ result'.status = "BAD_REQUEST"

\* C23: when videos.restoreThumbnail fails with BAD_REQUEST because the
\* caller's video has no muxPlaybackId, the video's thumbnailKey and
\* thumbnailUrl are what they were before the call and no file was deleted
\* from the file-storage provider.
C23_RefusedRestoreKeepsThumbnail ==
    [][RestoreRefused =>
            /\ req'.input.id \in DOMAIN videos'
            /\ videos'[req'.input.id].thumbnailKey = videos[req'.input.id].thumbnailKey
            /\ videos'[req'.input.id].thumbnailUrl = videos[req'.input.id].thumbnailUrl
            /\ utFiles' = utFiles
            /\ \A c \in result'.made : c.op # "deleteFiles"]_vars

\* ---------------------------------------------------------------------------
\* the step is a call of getQueryClient in environment e
Called(e) == Len(returned'[e]) = Len(returned[e]) + 1

Last(seq) == seq[Len(seq)]

AllCreated == UNION {created[e] : e \in Envs}

\* C24: in a browser getQueryClient creates a query client at most once: the
\* first call creates it and keeps it, and every later call (a render after
\* a suspended initial render included) creates nothing and returns that
\* same client.  On the server every call returns a client created in that
\* call, and the shared variable is never set.
C24_OneBrowserClient ==
    [][\A e \in Envs :
          Called(e) =>
            IF hasWindow(e)
            THEN /\ Cardinality(created'[e]) = 1
                 /\ browserQueryClient'[e] = Some(Last(returned'[e]))
                 /\ \A i \in 1..Len(returned'[e]) : returned'[e][i] = returned'[e][1]
                 /\ IF returned[e] = <<>>
                    THEN Last(returned'[e]) \notin AllCreated /\ created[e] = {}
                    ELSE created'[e] = created[e]
                 /\ created'[e] = {returned'[e][1]}
            ELSE /\ Last(returned'[e]) \notin AllCreated
                 /\ created'[e] = created[e] \cup {Last(returned'[e])}
                 /\ browserQueryClient[e] = Null
                 /\ browserQueryClient'[e] = Null]_vars

\* reached: a tab has rendered twice, both renders suspended, and got one
\* client both times, while the server has rendered twice and made two
C24_Witness ==
    /\ \E e \in Clients :
          /\ Len(returned[e]) = 2
          /\ mounted[e] = "suspended"
          /\ Cardinality(created[e]) = 1
    /\ Len(returned["server"]) = 2
    /\ Cardinality(created["server"]) = 2

=============================================================================
